---- MODULE Spec2Model ----
(***************************************************************************)
(* A model of scripts/create_librimix_metadata.py (LibriMix metadata       *)
(* generation): the sampling of speaker-disjoint utterance groups, the     *)
(* matching of noise clips, the removal of duplicate groups, the           *)
(* truncation of the output tables and the top-level driver.               *)
(*                                                                         *)
(* Row positions are 1-based here (pandas iloc positions are 0-based).     *)
(***************************************************************************)
EXTENDS Integers, Sequences, FiniteSets, TLC

VARIABLES
    n_src,                        \* --n_src
    re_use_utterances_for_train,  \* --re_use_utterances_for_train
    librispeech_md_file,          \* utterance table of the subset: rows [speaker_ID, length, subset]
    wham_md_file,                 \* noise table of the subset: rows [length, augmented]
    pc,                           \* position in set_pairs / set_utt_pairs / set_noise_pairs
    utt_pairs,                    \* set_pairs: accumulated groups
    noise_pairs,                  \* set_pairs: accumulated noise entries
    index,                        \* set_utt_pairs: unused row positions
    couple,                       \* set_utt_pairs: the partial group
    num_failed_trials,            \* set_utt_pairs: failure counter of the group attempt
    pair_list,                    \* the list set_utt_pairs fills and set_noise_pairs prunes
    pairs_copy,                   \* set_noise_pairs: pairs.copy(), the list iterated
    cursor,                       \* set_noise_pairs: position of the iteration in pairs_copy
    md,                           \* set_noise_pairs: labels of the clips left in the pool
    new_noise_pairs,              \* set_noise_pairs: the noise list being filled
    chosen,                       \* history: the groups of this call that got a clip, with its label
    rng,                          \* state of the shared random source (module random)
    mixtures_md,                  \* create_librimix_df: the mixture table
    mixtures_info,                \* create_librimix_df: the info table
    saved,                        \* the tables handed to to_csv in this run, in order
    generated,                    \* history: the tables of this run before the rounding
    arg_utt,                      \* history: first argument of the last remove_duplicates call
    arg_noise,                    \* history: second argument of the last remove_duplicates call
    dd_calls,                     \* history: number of remove_duplicates calls applied
    md_tables,                    \* the subsets of the run: their utterance and noise tables
    subsets,                      \* create_librimix_metadata: subsets still to process
    run_in_parallel,              \* --run_in_parallel
    history,                      \* the completed runs: mode, exit and saved tables
    mpc,                          \* position in create_librimix_metadata
    librispeech_md_files,         \* os.listdir(librispeech_md_dir), as the code changes it
    wham_md_files,                \* os.listdir(wham_md_dir)
    md_dir,                       \* the names in the output directory
    it,                           \* position of the for loop over librispeech_md_files
    jobs,                         \* the worker processes: subset file and state
    written,                      \* the files written by this run
    sources_list,                 \* create_librimix_df: the padded sources and the noise
    loudness,                     \* set_loudness: measured power of each original source
    drawn,                        \* history: the target random.uniform gave each source, in LUFS
    target_loudness_list,         \* set_loudness: the target power reported for each source
    sources_list_norm,            \* set_loudness: the scaled sources
    mixture_max,                  \* mix: the sum of the scaled sources
    weight,                       \* check_for_cliping: the factor of the re-measurement
    renormalize_loudness,         \* check_for_cliping: measured power of each weighted source
    did_clip,                     \* check_for_cliping: the clip flag
    gain_list,                    \* compute_gain: the gains of the row
    spc                           \* position in the body of the loop of create_librimix_df

df_vars == <<mixtures_md, mixtures_info, saved, generated>>
dd_vars == <<arg_utt, arg_noise, dd_calls>>
run_vars == <<md_tables, subsets, run_in_parallel, history>>
main_vars == <<mpc, librispeech_md_files, wham_md_files, md_dir, it, jobs, written>>
sig_vars == <<sources_list, loudness, drawn, target_loudness_list, sources_list_norm, mixture_max, weight,
              renormalize_loudness, did_clip, gain_list, spc>>

vars == <<n_src, re_use_utterances_for_train, librispeech_md_file, wham_md_file,
          pc, utt_pairs, noise_pairs, index, couple, num_failed_trials,
          pair_list, pairs_copy, cursor, md, new_noise_pairs, chosen, rng,
          df_vars, dd_vars, run_vars, main_vars, sig_vars>>

\* the variables that set_pairs and the functions it calls do not touch
others == <<df_vars, dd_vars, run_vars, main_vars, sig_vars>>

inputs == <<n_src, re_use_utterances_for_train, librispeech_md_file, wham_md_file>>

-----------------------------------------------------------------------------
(* Bounds of the model *)

MaxUtt == 3        \* rows of the utterance table
MaxSpeakers == 2   \* distinct speaker ids
MaxLen == 2        \* lengths of utterances and noise clips
MaxNoise == 2      \* rows of the noise table
MaxNSrc == 2       \* n_src ranges over 1..MaxNSrc
\* target_num_samples, scaled down from 3000 / 1000 / 20000
TargetDevTest == 2
TargetDevTestManySrc == 1
TargetTrain == 3
MaxGroups == 3     \* length of the lists given to remove_duplicates in DedupSpec
MaxRows == 210     \* rows generated for one subset in RowSpec
MaxSubsets == 2    \* subsets of a run in RunSpec
MaxRuns == 3       \* launches of the program in RunSpec
MaxFiles == 4      \* entries of the listing of utterance metadata files in MainSpec
RngModulus == 32   \* number of states of the random source

(* Program constants *)
MaxFailedTrials == 200
SampleFactor == 10
ManySrc == 10
Seed == 72
MIN_LOUDNESS == -33
MAX_LOUDNESS == -25
RoundTo == 100

-----------------------------------------------------------------------------
(* Helpers *)

Range(s) == {s[i] : i \in 1..Len(s)}

Min2(a, b) == IF a < b THEN a ELSE b

RECURSIVE SetMax(_)
SetMax(S) ==
    LET x == CHOOSE y \in S : TRUE
    IN  IF S = {x} THEN x
        ELSE LET m == SetMax(S \ {x}) IN IF x > m THEN x ELSE m

\* all sequences of k distinct elements of S, i.e. the outcomes of random.sample(S, k)
RECURSIVE KPerms(_, _)
KPerms(S, k) ==
    IF k = 0 THEN {<<>>}
    ELSE UNION {{<<x>> \o p : p \in KPerms(S \ {x}, k - 1)} : x \in S}

\* sorted(pair): insertion sort
RECURSIVE Insert(_, _)
Insert(x, s) ==
    IF s = <<>> THEN <<x>>
    ELSE IF x <= Head(s) THEN <<x>> \o s
    ELSE <<Head(s)>> \o Insert(x, Tail(s))

RECURSIVE sorted(_)
sorted(s) == IF s = <<>> THEN <<>> ELSE Insert(Head(s), sorted(Tail(s)))

\* mutant of ListRemove: drops the last element, whatever x is
ListRemoveLast(s, x) == SubSeq(s, 1, Len(s) - 1)

\* list.remove(x): drops the first element equal to x
RECURSIVE ListRemove(_, _)
ListRemove(s, x) ==
    IF s = <<>> THEN <<>>
    ELSE IF Head(s) = x THEN Tail(s)
    ELSE <<Head(s)>> \o ListRemove(Tail(s), x)

\* [item for i, item in enumerate(s) if i not in drop]
RECURSIVE KeepFrom(_, _, _)
KeepFrom(s, drop, i) ==
    IF i > Len(s) THEN <<>>
    ELSE (IF i \in drop THEN <<>> ELSE <<s[i]>>) \o KeepFrom(s, drop, i + 1)

Prefix(s, n) == SubSeq(s, 1, Min2(n, Len(s)))

-----------------------------------------------------------------------------
(* Input tables *)

SubsetNames == {"train-clean-360", "dev-clean"}

\* 'train' in subset
ContainsTrain(subset) == subset \in {"train-clean-100", "train-clean-360"}

UttRows(subset) ==
    [speaker_ID : 1..MaxSpeakers, length : 1..MaxLen, subset : {subset}]

UttTables ==
    UNION {UNION {[1..n -> UttRows(s)] : n \in 1..MaxUtt} : s \in SubsetNames}

NoiseRows == [length : 1..MaxLen, augmented : BOOLEAN]

NoiseTables == UNION {[1..m -> NoiseRows] : m \in 0..MaxNoise}

is_train == ContainsTrain(librispeech_md_file[1].subset)

-----------------------------------------------------------------------------
(* set_utt_pairs *)

\* mutant of ScanSamples: an accepted row stays in index
RECURSIVE ScanSamplesKeepIndex(_, _, _)
ScanSamplesKeepIndex(samples, i, st) ==
    IF i > Len(samples) THEN st
    ELSE
        LET sample == samples[i]
            speaker_id == librispeech_md_file[sample].speaker_ID
        IN  IF speaker_id \notin st.speaker_list
            THEN LET st2 == [speaker_list |-> st.speaker_list \cup {speaker_id},
                             couple |-> Append(st.couple, sample),
                             index |-> st.index,
                             found |-> TRUE]
                 IN  IF Len(st2.couple) = n_src THEN st2
                     ELSE ScanSamplesKeepIndex(samples, i + 1, st2)
            ELSE ScanSamplesKeepIndex(samples, i + 1, st)

\* the for loop over one sample: accepts the first row of each speaker not yet
\* seen in this pass, until the group is complete
RECURSIVE ScanSamples(_, _, _)
ScanSamples(samples, i, st) ==
    IF i > Len(samples) THEN st
    ELSE
        LET sample == samples[i]
            speaker_id == librispeech_md_file[sample].speaker_ID
        IN  IF speaker_id \notin st.speaker_list
            THEN LET st2 == [speaker_list |-> st.speaker_list \cup {speaker_id},
                             couple |-> Append(st.couple, sample),
                             index |-> st.index \ {sample},
                             found |-> TRUE]
                 IN  IF Len(st2.couple) = n_src THEN st2
                     ELSE ScanSamples(samples, i + 1, st2)
            ELSE ScanSamples(samples, i + 1, st)

SampleSize == Min2(Cardinality(index), SampleFactor * n_src)

UttBeginGroup ==
    /\ pc = "utt_outer"
    /\ Cardinality(index) >= n_src
    /\ num_failed_trials' = 0
    /\ couple' = <<>>
    /\ pc' = "utt_inner"
    /\ UNCHANGED <<inputs, utt_pairs, noise_pairs, index, pair_list,
                   pairs_copy, cursor, md, new_noise_pairs, chosen, rng, others>>

UttSamplePass(samples) ==
    /\ pc = "utt_inner"
    /\ Len(couple) < n_src /\ num_failed_trials < MaxFailedTrials
    /\ LET st == ScanSamples(samples, 1,
                    [speaker_list |-> {}, couple |-> couple,
                     index |-> index, found |-> FALSE])
       IN  /\ couple' = st.couple
           /\ index' = st.index
           /\ num_failed_trials' =
                IF st.found THEN num_failed_trials ELSE num_failed_trials + 1
    /\ UNCHANGED <<inputs, pc, utt_pairs, noise_pairs, pair_list,
                   pairs_copy, cursor, md, new_noise_pairs, chosen, others>>

UttEndGroup ==
    /\ pc = "utt_inner"
    /\ ~(Len(couple) < n_src /\ num_failed_trials < MaxFailedTrials)
    /\ pair_list' = IF Len(couple) = n_src THEN Append(pair_list, couple)
                    ELSE pair_list
    /\ pc' = "utt_outer"
    /\ UNCHANGED <<inputs, utt_pairs, noise_pairs, index, couple,
                   num_failed_trials, pairs_copy, cursor, md, new_noise_pairs, chosen,
                   rng, others>>

-----------------------------------------------------------------------------
(* set_noise_pairs *)

NonAugmented == {i \in DOMAIN wham_md_file : wham_md_file[i].augmented = FALSE}

\* the branch of set_pairs that uses every training utterance once
single_pass == is_train /\ ~re_use_utterances_for_train

\* the argument total_num_of_pairs of the call
total_num_of_pairs ==
    IF single_pass THEN Len(pair_list) ELSE Len(utt_pairs) + Len(pair_list)

\* mutant of NoisePool: counts the groups of this call only
NoisePoolPerCall ==
    IF Len(pair_list) > Cardinality(NonAugmented)
    THEN DOMAIN wham_md_file
    ELSE NonAugmented

NoisePool ==
    IF total_num_of_pairs > Cardinality(NonAugmented)
    THEN DOMAIN wham_md_file
    ELSE NonAugmented

\* mutant of max_length: the length of the group's first utterance only
max_length_first(pair) == librispeech_md_file[pair[1]].length

max_length(pair) ==
    SetMax({librispeech_md_file[pair[k]].length : k \in 1..Len(pair)})

possible(pair) == {i \in md : wham_md_file[i].length >= max_length(pair)}

\* list(md.index)[-1]: the label of the last row left in the pool
LastLabel(pool) == SetMax(pool)

\* a noise entry: the label, and whether it is the one-element list that
\* random.sample returns (the fallback stores the bare label)
NoiseEntry(label, as_list) == [label |-> label, as_list |-> as_list]

NoiseBegin ==
    /\ pc = "noise_begin"
    /\ md' = NoisePool
    /\ pairs_copy' = pair_list
    /\ cursor' = 1
    /\ new_noise_pairs' = <<>>
    /\ chosen' = <<>>
    /\ pc' = "noise_loop"
    /\ UNCHANGED <<inputs, utt_pairs, noise_pairs, index, couple,
                   num_failed_trials, pair_list, rng, others>>

\* one iteration of `for pair in pairs.copy()`; choice is the outcome of
\* random.sample(list(possible.index), 1) when a clip is long enough
NoiseStep(choice) ==
    /\ pc = "noise_loop"
    /\ cursor <= Len(pairs_copy)
    /\ LET pair == pairs_copy[cursor]
       IN  IF possible(pair) # {}
           THEN /\ choice \in possible(pair)
                /\ new_noise_pairs' = Append(new_noise_pairs, NoiseEntry(choice, TRUE))
                /\ chosen' = Append(chosen, [pair |-> pair, label |-> choice])
                /\ md' = md \ {choice}
                /\ cursor' = cursor + 1
                /\ UNCHANGED <<pc, pair_list>>
           ELSE IF is_train
           THEN IF md = {}
                THEN \* list(md.index)[-1] raises IndexError
                     /\ pc' = "IndexError"
                     /\ UNCHANGED <<new_noise_pairs, chosen, md, cursor, pair_list>>
                ELSE /\ new_noise_pairs' =
                            Append(new_noise_pairs, NoiseEntry(LastLabel(md), FALSE))
                     /\ chosen' = Append(chosen, [pair |-> pair, label |-> LastLabel(md)])
                     /\ md' = md \ {LastLabel(md)}
                     /\ cursor' = cursor + 1
                     /\ UNCHANGED <<pc, pair_list>>
           ELSE /\ pair_list' = ListRemove(pair_list, pair)
                /\ cursor' = cursor + 1
                /\ UNCHANGED <<pc, new_noise_pairs, chosen, md>>
    /\ UNCHANGED <<inputs, utt_pairs, noise_pairs, index, couple,
                   num_failed_trials, pairs_copy, others>>

-----------------------------------------------------------------------------
(* remove_duplicates *)

\* mutant of indices_to_remove: compares the groups without sorting them
indices_to_remove_unsorted(pairs) ==
    {j \in 1..Len(pairs) : \E i \in 1..(j - 1) : pairs[i] = pairs[j]}

indices_to_remove(pairs) ==
    {j \in 1..Len(pairs) : \E i \in 1..(j - 1) : sorted(pairs[i]) = sorted(pairs[j])}

\* mutant of remove_duplicates: the noise list is returned as it was
remove_duplicates_utt_only(pairs, noises) ==
    <<KeepFrom(pairs, indices_to_remove(pairs), 1), noises>>

remove_duplicates(pairs, noises) ==
    <<KeepFrom(pairs, indices_to_remove(pairs), 1),
      KeepFrom(noises, indices_to_remove(pairs), 1)>>

-----------------------------------------------------------------------------
(* set_pairs *)

target_num_samples ==
    IF is_train THEN TargetTrain
    ELSE IF n_src < ManySrc THEN TargetDevTest ELSE TargetDevTestManySrc

\* entry of the single pass, or one more iteration of the while loop
SetPairsRound ==
    /\ pc = "set_pairs"
    /\ single_pass \/ Len(utt_pairs) < target_num_samples
    /\ index' = DOMAIN librispeech_md_file
    /\ pair_list' = <<>>
    /\ pc' = "utt_outer"
    /\ UNCHANGED <<inputs, utt_pairs, noise_pairs, couple, num_failed_trials,
                   pairs_copy, cursor, md, new_noise_pairs, chosen, rng, others>>

\* set_utt_pairs returns pair_list (its locals are gone); set_noise_pairs is
\* called next
UttReturn ==
    /\ pc = "utt_outer"
    /\ Cardinality(index) < n_src
    /\ index' = {}
    /\ couple' = <<>>
    /\ num_failed_trials' = 0
    /\ pc' = "noise_begin"
    /\ UNCHANGED <<inputs, utt_pairs, noise_pairs, pair_list, pairs_copy,
                   cursor, md, new_noise_pairs, chosen, rng, others>>

\* set_noise_pairs returns (its locals are gone): the single pass is over, or
\* the round's groups are added and the duplicates removed
NoiseReturn ==
    /\ pc = "noise_loop"
    /\ cursor > Len(pairs_copy)
    /\ IF single_pass
       THEN /\ utt_pairs' = pair_list
            /\ noise_pairs' = new_noise_pairs
            /\ pc' = "pairs_done"
       ELSE LET r == remove_duplicates(utt_pairs \o pair_list,
                                       noise_pairs \o new_noise_pairs)
            IN  /\ utt_pairs' = r[1]
                /\ noise_pairs' = r[2]
                /\ pc' = "set_pairs"
    /\ pair_list' = <<>>
    /\ pairs_copy' = <<>>
    /\ cursor' = 1
    /\ md' = {}
    /\ new_noise_pairs' = <<>>
    /\ chosen' = <<>>
    /\ UNCHANGED <<inputs, index, couple, num_failed_trials, rng, others>>

\* the while loop ends: both lists are cut to the target
SetPairsReturn ==
    /\ pc = "set_pairs"
    /\ ~single_pass
    /\ ~(Len(utt_pairs) < target_num_samples)
    /\ utt_pairs' = Prefix(utt_pairs, target_num_samples)
    /\ noise_pairs' = Prefix(noise_pairs, target_num_samples)
    /\ pc' = "pairs_done"
    /\ UNCHANGED <<inputs, index, couple, num_failed_trials, pair_list,
                   pairs_copy, cursor, md, new_noise_pairs, chosen, rng, others>>

-----------------------------------------------------------------------------
(* The layers a specification does not use stay as they are here *)

DfIdle ==
    /\ mixtures_md = <<>>
    /\ mixtures_info = <<>>
    /\ saved = <<>>
    /\ generated = <<>>

DdIdle == arg_utt = <<>> /\ arg_noise = <<>> /\ dd_calls = 0

RunIdle ==
    /\ md_tables = <<>>
    /\ subsets = <<>>
    /\ run_in_parallel = FALSE
    /\ history = <<>>

MainIdle ==
    /\ mpc = "idle"
    /\ librispeech_md_files = <<>>
    /\ wham_md_files = <<>>
    /\ md_dir = {}
    /\ it = 1
    /\ jobs = <<>>
    /\ written = {}

SigIdle ==
    /\ sources_list = <<>>
    /\ loudness = <<>>
    /\ drawn = <<>>
    /\ target_loudness_list = <<>>
    /\ sources_list_norm = <<>>
    /\ mixture_max = <<>>
    /\ weight = <<>>
    /\ renormalize_loudness = <<>>
    /\ did_clip = FALSE
    /\ gain_list = <<>>
    /\ spc = "idle"

PairsIdle ==
    /\ utt_pairs = <<>>
    /\ noise_pairs = <<>>
    /\ index = {}
    /\ couple = <<>>
    /\ num_failed_trials = 0
    /\ pair_list = <<>>
    /\ pairs_copy = <<>>
    /\ cursor = 1
    /\ md = {}
    /\ new_noise_pairs = <<>>
    /\ chosen = <<>>

-----------------------------------------------------------------------------
(* Spec: set_pairs on one subset, for every outcome of the random draws *)

UttSamplePassAny ==
    /\ \E samples \in KPerms(index, SampleSize) : UttSamplePass(samples)
    /\ UNCHANGED rng

NoiseStepAny ==
    /\ cursor <= Len(pairs_copy)
    /\ \E choice \in possible(pairs_copy[cursor]) \cup {0} : NoiseStep(choice)
    /\ UNCHANGED rng

Init ==
    /\ n_src \in 1..MaxNSrc
    /\ librispeech_md_file \in UttTables
    \* the flag is read for training subsets only
    /\ re_use_utterances_for_train \in (IF is_train THEN BOOLEAN ELSE {FALSE})
    /\ wham_md_file \in NoiseTables
    /\ pc = "set_pairs"
    /\ PairsIdle
    /\ rng = 0
    /\ DfIdle /\ DdIdle /\ RunIdle /\ MainIdle /\ SigIdle

Next ==
    \/ SetPairsRound
    \/ UttBeginGroup
    \/ UttSamplePassAny
    \/ UttEndGroup
    \/ UttReturn
    \/ NoiseBegin
    \/ NoiseStepAny
    \/ NoiseReturn
    \/ SetPairsReturn

Spec == Init /\ [][Next]_vars

-----------------------------------------------------------------------------
(* Properties of set_pairs, checked under Spec *)

Subsets(S, k) == {T \in SUBSET S : Cardinality(T) = k}

DistinctSpeakers(group) ==
    \A i, j \in 1..Len(group) :
        i # j => librispeech_md_file[group[i]].speaker_ID
                    # librispeech_md_file[group[j]].speaker_ID

\* C1: every group emitted by set_utt_pairs, and so every group of set_pairs,
\* has n_src members whose speakers are pairwise distinct.
C1_SpeakerDisjoint ==
    \A g \in Range(pair_list) \cup Range(utt_pairs) :
        Len(g) = n_src /\ DistinctSpeakers(g)

NoDuplicateGroups(pairs) ==
    \A i, j \in 1..Len(pairs) : i # j => Range(pairs[i]) # Range(pairs[j])

\* C2: after the single pass, after every round of the loop and at the return
\* of set_pairs, no two groups of the list are equal as sets of rows.
C2_NoDuplicateGroups ==
    pc \in {"set_pairs", "pairs_done"} => NoDuplicateGroups(utt_pairs)

\* C2 witness: set_pairs returned more groups than one round can form.
C2_Witness ==
    /\ pc = "pairs_done"
    /\ ~single_pass
    /\ Len(utt_pairs) > Len(librispeech_md_file) \div n_src

\* C3: a noise entry chosen among the clips that are long enough (not by the
\* training fallback) is at least as long as the longest utterance of its group.
C3_LengthCovering ==
    pc \in {"set_pairs", "pairs_done"} =>
        \A i \in 1..Len(noise_pairs) :
            noise_pairs[i].as_list =>
                /\ i <= Len(utt_pairs)
                /\ \A k \in 1..Len(utt_pairs[i]) :
                        wham_md_file[noise_pairs[i].label].length
                            >= librispeech_md_file[utt_pairs[i][k]].length

\* C3 witness: a group with an utterance of the greatest length got a clip by
\* the random choice, while the table also holds a shorter clip.
C3_Witness ==
    /\ pc = "pairs_done"
    /\ \E i \in 1..Len(noise_pairs) :
            /\ noise_pairs[i].as_list
            /\ \E k \in 1..Len(utt_pairs[i]) :
                    librispeech_md_file[utt_pairs[i][k]].length = MaxLen
    /\ \E k \in DOMAIN wham_md_file : wham_md_file[k].length < MaxLen

\* C4: the clips paired with the groups that set_pairs returns are pairwise
\* distinct.
C4_NoiseNotReused ==
    pc = "pairs_done" =>
        \A i, j \in 1..Len(noise_pairs) :
            i # j => noise_pairs[i].label # noise_pairs[j].label

\* a round has added a group and no round can add another: every set of n_src
\* rows is in the list already, or (outside training) no clip of the table is
\* long enough for it
NoNewGroupPossible ==
    /\ utt_pairs # <<>>
    /\ \A S \in Subsets(DOMAIN librispeech_md_file, n_src) :
          \/ \E i \in 1..Len(utt_pairs) : Range(utt_pairs[i]) = S
          \/ /\ ~is_train
             /\ \A k \in DOMAIN wham_md_file :
                   \E r \in S : wham_md_file[k].length < librispeech_md_file[r].length

\* C5: the loop of set_pairs does not go into another round when no round can
\* add a new distinct group with a noise pairing.
C5_LoopStops ==
    (pc = "set_pairs" /\ ~single_pass /\ NoNewGroupPossible)
        => ~(Len(utt_pairs) < target_num_samples)

-----------------------------------------------------------------------------
(* DedupSpec: remove_duplicates on lists of groups and noise entries *)

\* utt_pairs, noise_pairs = remove_duplicates(utt_pairs, noise_pairs)
RemoveDuplicatesCall ==
    /\ pc = "dedup"
    /\ dd_calls < 2
    /\ arg_utt' = utt_pairs
    /\ arg_noise' = noise_pairs
    /\ utt_pairs' = remove_duplicates(utt_pairs, noise_pairs)[1]
    /\ noise_pairs' = remove_duplicates(utt_pairs, noise_pairs)[2]
    /\ dd_calls' = dd_calls + 1
    /\ UNCHANGED <<inputs, pc, index, couple, num_failed_trials, pair_list,
                   pairs_copy, cursor, md, new_noise_pairs, chosen, rng, df_vars, run_vars,
                   main_vars, sig_vars>>

SeqsUpTo(S, n) == UNION {[1..k -> S] : k \in 0..n}

NoiseEntries == {NoiseEntry(l, b) : l \in 1..MaxNoise, b \in BOOLEAN}

DedupInit ==
    /\ n_src \in 1..MaxNSrc
    /\ re_use_utterances_for_train = FALSE
    /\ librispeech_md_file = <<>>
    /\ wham_md_file = <<>>
    /\ pc = "dedup"
    /\ utt_pairs \in SeqsUpTo(KPerms(1..MaxUtt, n_src), MaxGroups)
    /\ noise_pairs \in [1..Len(utt_pairs) -> NoiseEntries]
    /\ index = {}
    /\ couple = <<>>
    /\ num_failed_trials = 0
    /\ pair_list = <<>>
    /\ pairs_copy = <<>>
    /\ cursor = 1
    /\ md = {}
    /\ new_noise_pairs = <<>>
    /\ chosen = <<>>
    /\ rng = 0
    /\ DfIdle /\ DdIdle /\ RunIdle /\ MainIdle /\ SigIdle

DedupNext == RemoveDuplicatesCall

DedupSpec == DedupInit /\ [][DedupNext]_vars

\* the positions of the groups that are not set-equal to an earlier group
KeptPositions(pairs) ==
    {j \in 1..Len(pairs) : \A i \in 1..(j - 1) : Range(pairs[i]) # Range(pairs[j])}

\* the k-th smallest element of a set of positions
KthPosition(P, k) == CHOOSE j \in P : Cardinality({i \in P : i <= j}) = k

\* C9: remove_duplicates keeps, in their order, exactly the groups that are not
\* set-equal to an earlier group and the noise entries at the same positions,
\* so both lists have the same length; a second application changes nothing.
C9_RemoveDuplicates ==
    dd_calls >= 1 =>
        LET P == KeptPositions(arg_utt)
        IN  /\ Len(utt_pairs) = Cardinality(P)
            /\ Len(noise_pairs) = Len(utt_pairs)
            /\ \A k \in 1..Len(utt_pairs) :
                    /\ utt_pairs[k] = arg_utt[KthPosition(P, k)]
                    /\ noise_pairs[k] = arg_noise[KthPosition(P, k)]
            /\ dd_calls = 2 => (utt_pairs = arg_utt /\ noise_pairs = arg_noise)

\* C9 witness: a call removed a group that lists the rows of an earlier group
\* in another order, together with a noise entry unlike the one kept.
C9_Witness ==
    /\ dd_calls = 1
    /\ Len(utt_pairs) < Len(arg_utt)
    /\ \E i, j \in 1..Len(arg_utt) :
            /\ i < j
            /\ arg_utt[i] # arg_utt[j]
            /\ Range(arg_utt[i]) = Range(arg_utt[j])
            /\ arg_noise[i] # arg_noise[j]

-----------------------------------------------------------------------------
(* The random source: module random, seeded once when the module is loaded. *)
(* The generator is a small linear congruential one; what the model keeps  *)
(* is that every draw is a function of the state and advances it.          *)

\* mutant of SeedState: no seed, the state differs from launch to launch
SeedStateUnseeded == (Seed + Len(history)) % RngModulus

\* random.seed(72)
SeedState == Seed % RngModulus

NextRng(r) == (5 * r + 3) % RngModulus

\* int(random.random() * n)
RandBelow(r, n) == (NextRng(r) * n) \div RngModulus

SetMin(S) == CHOOSE x \in S : \A y \in S : x <= y

\* the elements of a set of row positions in iteration order
RECURSIVE AscSeq(_)
AscSeq(S) == IF S = {} THEN <<>> ELSE <<SetMin(S)>> \o AscSeq(S \ {SetMin(S)})

\* random.sample from a pool: result[i] = pool[j]; pool[j] = pool[n - i - 1]
RECURSIVE SamplePool(_, _, _, _)
SamplePool(pool, k, r, acc) ==
    IF k = 0 THEN [value |-> acc, rng |-> r]
    ELSE LET n == Len(pool)
             j == RandBelow(r, n) + 1
             rest == [i \in 1..(n - 1) |-> IF i = j THEN pool[n] ELSE pool[i]]
         IN  SamplePool(rest, k - 1, NextRng(r), Append(acc, pool[j]))

random_sample(r, S, k) == SamplePool(AscSeq(S), k, r, <<>>)

\* random.uniform(a, b), to the integer below
random_uniform(r, a, b) ==
    [value |-> a + ((b - a) * NextRng(r)) \div RngModulus, rng |-> NextRng(r)]

\* the draws of set_loudness for n_src utterances and the noise: one per
\* source, and a second one, 5 units lower, that replaces the noise's
RECURSIVE LoudnessDraws(_, _, _)
LoudnessDraws(i, r, acc) ==
    IF i > n_src + 1 THEN [value |-> acc, rng |-> r]
    ELSE LET d1 == random_uniform(r, MIN_LOUDNESS, MAX_LOUDNESS)
             d2 == random_uniform(d1.rng, MIN_LOUDNESS - 5, MAX_LOUDNESS - 5)
         IN  IF i = n_src + 1
             THEN LoudnessDraws(i + 1, d2.rng, Append(acc, d2.value))
             ELSE LoudnessDraws(i + 1, d1.rng, Append(acc, d1.value))

UttSamplePassSeeded ==
    LET d == random_sample(rng, index, SampleSize)
    IN  /\ UttSamplePass(d.value)
        /\ rng' = d.rng

NoiseStepSeeded ==
    /\ cursor <= Len(pairs_copy)
    /\ LET P == possible(pairs_copy[cursor])
           d == random_sample(rng, P, 1)
       IN  IF P # {}
           THEN NoiseStep(d.value[1]) /\ rng' = d.rng
           ELSE NoiseStep(0) /\ UNCHANGED rng

-----------------------------------------------------------------------------
(* create_librimix_df and the end of create_librimix_metadata_single_set *)

\* zip(pairs, pairs_noise)
ZipLen == Min2(Len(utt_pairs), Len(noise_pairs))

\* one iteration of the loop over the pairs: the rows of both tables. The
\* gains are functions of the waveforms and of the loudness targets drawn;
\* the row keeps the targets.
CreateRow(targets) ==
    /\ pc = "pairs_done"
    /\ Len(mixtures_md) < ZipLen
    /\ LET pair == utt_pairs[Len(mixtures_md) + 1]
           pair_noise == noise_pairs[Len(mixtures_md) + 1]
       IN  /\ mixtures_md' = Append(mixtures_md,
                  [mixture_ID |-> pair, noise |-> pair_noise.label,
                   target_loudness |-> targets])
           /\ mixtures_info' = Append(mixtures_info,
                  [mixture_ID |-> pair,
                   speaker_ID |-> [i \in 1..n_src |->
                                     librispeech_md_file[pair[i]].speaker_ID]])
    /\ UNCHANGED <<inputs, pc, utt_pairs, noise_pairs, index, couple,
                   num_failed_trials, pair_list, pairs_copy, cursor, md,
                   new_noise_pairs, chosen, saved, generated, dd_vars, run_vars, main_vars, sig_vars>>

CreateRowSeeded ==
    LET d == LoudnessDraws(1, rng, <<>>)
    IN  /\ CreateRow(d.value)
        /\ rng' = d.rng

\* mutant of RoundRows: rounds the number of rows up
RoundRowsUp(table) ==
    Prefix(table, ((Len(table) + RoundTo - 1) \div RoundTo) * RoundTo)

\* table[:len(table) // 100 * 100]
RoundRows(table) == Prefix(table, (Len(table) \div RoundTo) * RoundTo)

\* the loop is over: both tables are rounded and saved, and the locals of
\* set_pairs are gone
SaveTables ==
    /\ pc = "pairs_done"
    /\ ~(Len(mixtures_md) < ZipLen)
    /\ saved' = Append(saved, [md |-> RoundRows(mixtures_md),
                               info |-> RoundRows(mixtures_info)])
    /\ generated' = Append(generated, [md |-> mixtures_md, info |-> mixtures_info])
    /\ utt_pairs' = <<>>
    /\ noise_pairs' = <<>>
    /\ pc' = "main_loop"
    /\ UNCHANGED <<inputs, index, couple, num_failed_trials, pair_list,
                   pairs_copy, cursor, md, new_noise_pairs, chosen, rng, mixtures_md,
                   mixtures_info, dd_vars, run_vars, main_vars, sig_vars>>

-----------------------------------------------------------------------------
(* RowSpec: the tables of one subset, from the pairs to the saved files *)

RowInit ==
    /\ n_src = 1
    /\ re_use_utterances_for_train = FALSE
    /\ \E k \in 1..MaxRows :
        /\ librispeech_md_file =
              [i \in 1..k |-> [speaker_ID |-> 1 + (i % MaxSpeakers), length |-> 1,
                              subset |-> "train-clean-360"]]
        /\ wham_md_file = [i \in 1..k |-> [length |-> 1, augmented |-> FALSE]]
        /\ utt_pairs = [i \in 1..k |-> <<i>>]
        /\ noise_pairs = [i \in 1..k |-> NoiseEntry(i, TRUE)]
    /\ pc = "pairs_done"
    /\ index = {}
    /\ couple = <<>>
    /\ num_failed_trials = 0
    /\ pair_list = <<>>
    /\ pairs_copy = <<>>
    /\ cursor = 1
    /\ md = {}
    /\ new_noise_pairs = <<>>
    /\ chosen = <<>>
    /\ rng = SeedState
    /\ DfIdle /\ DdIdle /\ RunIdle /\ MainIdle /\ SigIdle

RowNext == CreateRowSeeded \/ SaveTables

RowSpec == RowInit /\ [][RowNext]_vars

\* C6: both saved tables are the prefix of the generated rows of length
\* floor(generated / 100) * 100: a multiple of 100, at most the generated
\* count, fewer than 100 rows lost, the same for both tables.
C6_RowCountTruncation ==
    (pc = "main_loop" /\ saved # <<>>) =>
        LET s == saved[Len(saved)]
            g == Len(mixtures_md)
        IN  /\ Len(s.md) % 100 = 0
            /\ Len(s.md) <= g
            /\ g - Len(s.md) < 100
            /\ Len(s.info) = Len(s.md)
            /\ \A i \in 1..Len(s.md) :
                    s.md[i] = mixtures_md[i] /\ s.info[i] = mixtures_info[i]

\* C6 witness: 150 rows were generated and 100 saved.
C6_Witness ==
    /\ pc = "main_loop"
    /\ saved # <<>>
    /\ Len(mixtures_md) = 150
    /\ Len(saved[1].md) = 100
    /\ Len(saved[1].info) = 100

-----------------------------------------------------------------------------
(* RunSpec: launches of the program on the same subsets, with the seeded   *)
(* random source. In the concurrent mode every worker is a process of its  *)
(* own, with its own copy of the random source in the state it had when    *)
(* the worker was started; the workers share nothing, so the model runs    *)
(* them one after the other.                                               *)

\* the program is launched: the module is loaded (random.seed) and
\* create_librimix_metadata starts on the list of subsets
Launch ==
    /\ pc = "exited"
    /\ Len(history) < MaxRuns
    /\ run_in_parallel' \in BOOLEAN
    /\ rng' = SeedState
    /\ subsets' = md_tables
    /\ saved' = <<>>
    /\ generated' = <<>>
    /\ pc' = "main_loop"
    /\ UNCHANGED <<inputs, utt_pairs, noise_pairs, index, couple,
                   num_failed_trials, pair_list, pairs_copy, cursor, md,
                   new_noise_pairs, chosen, mixtures_md, mixtures_info, dd_vars,
                   md_tables, history, main_vars, sig_vars>>

\* create_librimix_metadata_single_set is called on the next subset, in this
\* process or in a worker started from it
StartSubset ==
    /\ pc = "main_loop"
    /\ subsets # <<>>
    /\ librispeech_md_file' = Head(subsets).utt
    /\ wham_md_file' = Head(subsets).noise
    /\ subsets' = Tail(subsets)
    /\ rng' = IF run_in_parallel THEN SeedState ELSE rng
    /\ mixtures_md' = <<>>
    /\ mixtures_info' = <<>>
    /\ pc' = "set_pairs"
    /\ UNCHANGED <<n_src, re_use_utterances_for_train, utt_pairs, noise_pairs,
                   index, couple, num_failed_trials, pair_list, pairs_copy,
                   cursor, md, new_noise_pairs, chosen, saved, generated, dd_vars,
                   md_tables, run_in_parallel, history, main_vars, sig_vars>>

\* the IndexError of set_noise_pairs leaves the subset's process: it ends the
\* run in the sequential mode, and only the worker in the concurrent mode
Raised ==
    /\ pc = "IndexError"
    /\ IF run_in_parallel
       THEN /\ pc' = "main_loop"
            /\ UNCHANGED history
       ELSE /\ pc' = "exited"
            /\ history' = Append(history,
                  [parallel |-> run_in_parallel, exit |-> "IndexError",
                   saved |-> saved, generated |-> generated, rng |-> rng])
    /\ utt_pairs' = <<>>
    /\ noise_pairs' = <<>>
    /\ index' = {}
    /\ couple' = <<>>
    /\ num_failed_trials' = 0
    /\ pair_list' = <<>>
    /\ pairs_copy' = <<>>
    /\ cursor' = 1
    /\ md' = {}
    /\ new_noise_pairs' = <<>>
    /\ chosen' = <<>>
    /\ UNCHANGED <<inputs, rng, df_vars, dd_vars, md_tables, subsets,
                   run_in_parallel, main_vars, sig_vars>>

\* every subset was processed (every worker joined): the run returns
RunEnd ==
    /\ pc = "main_loop"
    /\ subsets = <<>>
    /\ history' = Append(history,
          [parallel |-> run_in_parallel, exit |-> "ok",
           saved |-> saved, generated |-> generated, rng |-> rng])
    /\ pc' = "exited"
    /\ UNCHANGED <<inputs, utt_pairs, noise_pairs, index, couple,
                   num_failed_trials, pair_list, pairs_copy, cursor, md,
                   new_noise_pairs, chosen, rng, df_vars, dd_vars, md_tables, subsets,
                   run_in_parallel, main_vars, sig_vars>>

RunUttTables ==
    {t \in UttTables : Len(t) = MaxUtt /\ \A i \in DOMAIN t : t[i].length = 1}

RunNoiseTables ==
    {w \in NoiseTables :
        /\ Len(w) >= 1
        /\ \A i \in DOMAIN w : w[i].length = MaxLen /\ ~w[i].augmented}

RunSubsets == [utt : RunUttTables, noise : RunNoiseTables]

RunInit ==
    /\ n_src \in 1..MaxNSrc
    /\ re_use_utterances_for_train \in BOOLEAN
    /\ md_tables \in UNION {[1..k -> RunSubsets] : k \in 1..MaxSubsets}
    /\ librispeech_md_file = <<>>
    /\ wham_md_file = <<>>
    /\ pc = "exited"
    /\ PairsIdle
    /\ rng = 0
    /\ DfIdle /\ DdIdle /\ MainIdle /\ SigIdle
    /\ subsets = <<>>
    /\ run_in_parallel = FALSE
    /\ history = <<>>

RunNext ==
    \/ Launch
    \/ StartSubset
    \/ SetPairsRound
    \/ UttBeginGroup
    \/ UttSamplePassSeeded
    \/ UttEndGroup
    \/ UttReturn
    \/ NoiseBegin
    \/ NoiseStepSeeded
    \/ NoiseReturn
    \/ SetPairsReturn
    \/ CreateRowSeeded
    \/ SaveTables
    \/ Raised
    \/ RunEnd

RunSpec == RunInit /\ [][RunNext]_vars

-----------------------------------------------------------------------------
(* File names, as sequences of characters *)

TrainClean100 == <<"t", "r", "a", "i", "n", "-", "c", "l", "e", "a", "n", "-", "1", "0", "0", ".", "c", "s", "v">>
TrainClean360 == <<"t", "r", "a", "i", "n", "-", "c", "l", "e", "a", "n", "-", "3", "6", "0", ".", "c", "s", "v">>
DevClean == <<"d", "e", "v", "-", "c", "l", "e", "a", "n", ".", "c", "s", "v">>
TestClean == <<"t", "e", "s", "t", "-", "c", "l", "e", "a", "n", ".", "c", "s", "v">>
NotesTxt == <<"n", "o", "t", "e", "s", ".", "t", "x", "t">>
Readme == <<"R", "E", "A", "D", "M", "E">>
WhamTrain == <<"t", "r", "a", "i", "n", ".", "c", "s", "v">>
WhamDev == <<"d", "e", "v", ".", "c", "s", "v">>
WhamTest == <<"t", "e", "s", "t", ".", "c", "s", "v">>
DotCsv == <<".", "c", "s", "v">>
Libri == <<"l", "i", "b", "r", "i">>
Mix == <<"m", "i", "x">>
Info == <<"i", "n", "f", "o">>

StartsWith(s, p) == Len(p) <= Len(s) /\ SubSeq(s, 1, Len(p)) = p

EndsWith(s, x) == Len(x) <= Len(s) /\ SubSeq(s, Len(s) - Len(x) + 1, Len(s)) = x

\* x in s
Contains(s, x) ==
    \E i \in 1..(Len(s) - Len(x) + 1) : SubSeq(s, i, i + Len(x) - 1) = x

\* s.split(c)[0]
RECURSIVE SplitFirst(_, _)
SplitFirst(s, c) ==
    IF s = <<>> \/ Head(s) = c THEN <<>>
    ELSE <<Head(s)>> \o SplitFirst(Tail(s), c)

\* s.strip(chars)
RECURSIVE LStrip(_, _)
LStrip(s, chars) ==
    IF s # <<>> /\ Head(s) \in chars THEN LStrip(Tail(s), chars) ELSE s

RECURSIVE RStrip(_, _)
RStrip(s, chars) ==
    IF s # <<>> /\ s[Len(s)] \in chars
    THEN RStrip(SubSeq(s, 1, Len(s) - 1), chars) ELSE s

Strip(s, chars) == RStrip(LStrip(s, chars), chars)

\* '_'.join([a, b])
Join2(a, b) == a \o <<"_">> \o b

Digit(n) == <<"1", "2", "3", "4", "5", "6", "7", "8", "9">>[n]

\* f'libri{n_src}mix'
DatasetOf(n) == Libri \o <<Digit(n)>> \o Mix

dataset == DatasetOf(n_src)

\* the two files create_librimix_metadata_single_set writes for a subset
SaveNameOf(ds, f) == Join2(ds, f)

InfoNameOf(ds, f) == Join2(Join2(ds, Strip(f, Range(DotCsv))), Info) \o DotCsv

-----------------------------------------------------------------------------
(* create_librimix_metadata *)

\* some order of the elements of a set (os.listdir)
RECURSIVE SeqOfSet(_)
SeqOfSet(S) ==
    IF S = {} THEN <<>>
    ELSE LET x == CHOOSE y \in S : TRUE IN <<x>> \o SeqOfSet(S \ {x})

\* what check_already_generated appends to to_be_ignored for one name of md_dir
IgnoredFor(gen) ==
    IF StartsWith(gen, dataset) /\ ~Contains(gen, Info)
    THEN IF Contains(gen, <<"t", "r", "a", "i", "n", "-", "1", "0", "0">>)
         THEN <<TrainClean100>>
         ELSE IF Contains(gen, <<"t", "r", "a", "i", "n", "-", "3", "6", "0">>)
         THEN <<TrainClean360>>
         ELSE IF Contains(gen, <<"d", "e", "v">>) THEN <<DevClean>>
         ELSE IF Contains(gen, <<"t", "e", "s", "t">>) THEN <<TestClean>>
         ELSE <<>>
    ELSE <<>>

RECURSIVE IgnoredForAll(_)
IgnoredForAll(gens) ==
    IF gens = <<>> THEN <<>>
    ELSE IgnoredFor(Head(gens)) \o IgnoredForAll(Tail(gens))

\* to_be_ignored when the loop over already_generated is over
to_be_ignored == <<TrainClean100>> \o IgnoredForAll(SeqOfSet(md_dir))

\* for element in to_be_ignored: librispeech_md_files.remove(element);
\* list.remove raises ValueError when the element is not in the list
RECURSIVE RemoveEach(_, _)
RemoveEach(files, elements) ==
    IF elements = <<>> THEN [ok |-> TRUE, files |-> files]
    ELSE IF Head(elements) \notin Range(files) THEN [ok |-> FALSE, files |-> files]
    ELSE RemoveEach(ListRemove(files, Head(elements)), Tail(elements))

\* [f for f in wham_md_files if f.startswith(md_file.split('-')[0])]
Companions(md_file) ==
    SelectSeq(wham_md_files, LAMBDA f : StartsWith(f, SplitFirst(md_file, "-")))

CheckAlreadyGenerated ==
    /\ mpc = "check"
    /\ LET r == RemoveEach(librispeech_md_files, to_be_ignored)
       IN  IF r.ok
           THEN /\ librispeech_md_files' = r.files
                /\ mpc' = "validate"
           ELSE /\ mpc' = "ValueError"
                /\ UNCHANGED librispeech_md_files
    /\ it' = 1
    /\ UNCHANGED <<wham_md_files, md_dir, jobs, written>>

\* one iteration of the loop that checks the listing; the list iterator
\* keeps a position, and the list is changed under it
ValidateStep ==
    /\ mpc = "validate"
    /\ it <= Len(librispeech_md_files)
    /\ LET librispeech_md_file_name == librispeech_md_files[it]
       IN  IF ~EndsWith(librispeech_md_file_name, DotCsv)
           THEN /\ librispeech_md_files' =
                      ListRemove(librispeech_md_files, librispeech_md_file_name)
                /\ UNCHANGED mpc
           ELSE IF Companions(librispeech_md_file_name) = <<>>
           THEN \* IndexError is caught: message and return
                /\ mpc' = "aborted"
                /\ UNCHANGED librispeech_md_files
           ELSE UNCHANGED <<mpc, librispeech_md_files>>
    /\ it' = it + 1
    /\ UNCHANGED <<wham_md_files, md_dir, jobs, written>>

ValidateDone ==
    /\ mpc = "validate"
    /\ it > Len(librispeech_md_files)
    /\ mpc' = IF run_in_parallel THEN "start_workers" ELSE "seq_loop"
    /\ it' = 1
    /\ UNCHANGED <<librispeech_md_files, wham_md_files, md_dir, jobs, written>>

\* create_librimix_metadata_single_set in the main process: the IndexError of
\* the companion lookup leaves create_librimix_metadata
SeqCall ==
    /\ mpc = "seq_loop"
    /\ it <= Len(librispeech_md_files)
    /\ LET f == librispeech_md_files[it]
           out == {SaveNameOf(dataset, f), InfoNameOf(dataset, f)}
       IN  IF Companions(f) = <<>>
           THEN /\ mpc' = "IndexError"
                /\ UNCHANGED <<md_dir, written>>
           ELSE /\ md_dir' = md_dir \cup out
                /\ written' = written \cup out
                /\ UNCHANGED mpc
    /\ it' = it + 1
    /\ UNCHANGED <<librispeech_md_files, wham_md_files, jobs>>

SeqDone ==
    /\ mpc = "seq_loop"
    /\ it > Len(librispeech_md_files)
    /\ mpc' = "returned"
    /\ UNCHANGED <<librispeech_md_files, wham_md_files, md_dir, it, jobs, written>>

\* p = multiprocessing.Process(...); jobs.append(p); p.start()
StartWorker ==
    /\ mpc = "start_workers"
    /\ it <= Len(librispeech_md_files)
    /\ jobs' = Append(jobs, [file |-> librispeech_md_files[it], state |-> "running"])
    /\ it' = it + 1
    /\ UNCHANGED <<mpc, librispeech_md_files, wham_md_files, md_dir, written>>

\* create_librimix_metadata_single_set in a worker: the IndexError of the
\* companion lookup ends the worker's process
WorkerRun(w) ==
    /\ jobs[w].state = "running"
    /\ LET f == jobs[w].file
           out == {SaveNameOf(dataset, f), InfoNameOf(dataset, f)}
       IN  IF Companions(f) = <<>>
           THEN /\ jobs' = [jobs EXCEPT ![w].state = "crashed"]
                /\ UNCHANGED <<md_dir, written>>
           ELSE /\ jobs' = [jobs EXCEPT ![w].state = "done"]
                /\ md_dir' = md_dir \cup out
                /\ written' = written \cup out
    /\ UNCHANGED <<mpc, librispeech_md_files, wham_md_files, it>>

\* [job.join() for job in jobs]: waits for every worker, reads no exit code
JoinAll ==
    /\ mpc = "start_workers"
    /\ it > Len(librispeech_md_files)
    /\ \A w \in 1..Len(jobs) : jobs[w].state # "running"
    /\ mpc' = "returned"
    /\ UNCHANGED <<librispeech_md_files, wham_md_files, md_dir, it, jobs, written>>

-----------------------------------------------------------------------------
(* MainSpec: create_librimix_metadata on a listing of metadata files; what  *)
(* one subset's tables become is the matter of the other specifications     *)

MdFileNames == {TrainClean100, TrainClean360, DevClean, TestClean, NotesTxt, Readme}

WhamFileNames == {WhamTrain, WhamDev, WhamTest}

Listings == UNION {KPerms(MdFileNames, k) : k \in 0..MaxFiles}

MainInit ==
    /\ n_src \in 1..MaxNSrc
    /\ re_use_utterances_for_train = FALSE
    /\ librispeech_md_file = <<>>
    /\ wham_md_file = <<>>
    /\ pc = "idle"
    /\ PairsIdle
    /\ rng = SeedState
    /\ DfIdle /\ DdIdle /\ SigIdle
    /\ md_tables = <<>>
    /\ subsets = <<>>
    /\ run_in_parallel \in BOOLEAN
    /\ history = <<>>
    /\ mpc = "check"
    /\ librispeech_md_files \in Listings
    /\ wham_md_files \in {SeqOfSet(S) : S \in SUBSET WhamFileNames}
    /\ md_dir \in SUBSET {SaveNameOf(DatasetOf(2), DevClean),
                          InfoNameOf(DatasetOf(2), DevClean),
                          SaveNameOf(DatasetOf(2), TrainClean360)}
    /\ it = 1
    /\ jobs = <<>>
    /\ written = {}

main_others == <<inputs, pc, utt_pairs, noise_pairs, index, couple,
                 num_failed_trials, pair_list, pairs_copy, cursor, md,
                 new_noise_pairs, chosen, rng, df_vars, dd_vars, run_vars, sig_vars>>

MainNext ==
    \/ CheckAlreadyGenerated /\ UNCHANGED main_others
    \/ ValidateStep /\ UNCHANGED main_others
    \/ ValidateDone /\ UNCHANGED main_others
    \/ SeqCall /\ UNCHANGED main_others
    \/ SeqDone /\ UNCHANGED main_others
    \/ StartWorker /\ UNCHANGED main_others
    \/ (\E w \in 1..Len(jobs) : WorkerRun(w)) /\ UNCHANGED main_others
    \/ JoinAll /\ UNCHANGED main_others

MainSpec == MainInit /\ [][MainNext]_vars

HasCompanion(f) ==
    \E i \in 1..Len(wham_md_files) : StartsWith(wham_md_files[i], SplitFirst(f, "-"))

\* C8: when a file that is going to be processed has no companion noise
\* file, no output file is written.
C8_AbortBeforeOutput ==
    (\E i \in 1..Len(librispeech_md_files) : ~HasCompanion(librispeech_md_files[i]))
        => written = {}

\* C10: in the concurrent mode, create_librimix_metadata does not return
\* normally when a worker has ended abnormally.
C10_WorkerFailureFailsBatch ==
    (run_in_parallel /\ mpc = "returned")
        => \A w \in 1..Len(jobs) : jobs[w].state # "crashed"

-----------------------------------------------------------------------------
(* ExampleSpec: set_pairs on the example scenario of the documentation: two *)
(* sources, a dev subset of four utterances of four speakers, each 16000    *)
(* samples long, and one non-augmented noise clip of 20000 samples          *)

ExampleInit ==
    /\ n_src = 2
    /\ re_use_utterances_for_train = FALSE
    /\ librispeech_md_file =
          [i \in 1..4 |-> [speaker_ID |-> i, length |-> 16000, subset |-> "dev-clean"]]
    /\ wham_md_file = <<[length |-> 20000, augmented |-> FALSE]>>
    /\ pc = "set_pairs"
    /\ PairsIdle
    /\ rng = 0
    /\ DfIdle /\ DdIdle /\ RunIdle /\ MainIdle /\ SigIdle

ExampleNext ==
    \/ SetPairsRound
    \/ UttBeginGroup
    \/ UttSamplePassAny
    \/ UttEndGroup
    \/ UttReturn
    \/ NoiseBegin
    \/ NoiseStepAny
    \/ NoiseReturn
    \/ SetPairsReturn

ExampleSpec == ExampleInit /\ [][ExampleNext]_vars

\* C12: in the example scenario a round forms two speaker-disjoint groups, the
\* clip goes to one of them and the other is dropped, and set_pairs returns
\* exactly one group with its clip.
C12_ExampleOneMixture ==
    /\ (pc = "noise_begin") =>
            /\ Len(pair_list) = 2
            /\ \A i \in 1..Len(pair_list) : DistinctSpeakers(pair_list[i])
    /\ (pc = "noise_loop" /\ cursor > Len(pairs_copy)) =>
            Len(pair_list) = 1 /\ Len(new_noise_pairs) = 1
    /\ (pc = "pairs_done") => Len(utt_pairs) = 1 /\ Len(noise_pairs) = 1

-----------------------------------------------------------------------------
(* NoiseSpec: set_pairs on subsets whose utterances can be longer than      *)
(* every noise clip, for every outcome of the random draws                  *)

LongUttRows(subset, i) ==
    [speaker_ID : {i}, length : 1..(MaxLen + 1), subset : {subset}]

LongUttTables ==
    UNION {UNION {{t \in [1..n -> UNION {LongUttRows(s, i) : i \in 1..n}] :
                        \A i \in 1..n : t[i].speaker_ID = i}
                  : n \in 1..MaxUtt} : s \in SubsetNames}

NoiseInit ==
    /\ n_src \in 1..MaxNSrc
    /\ librispeech_md_file \in LongUttTables
    /\ re_use_utterances_for_train \in (IF is_train THEN BOOLEAN ELSE {FALSE})
    /\ wham_md_file \in NoiseTables
    /\ pc = "set_pairs"
    /\ PairsIdle
    /\ rng = 0
    /\ DfIdle /\ DdIdle /\ RunIdle /\ MainIdle /\ SigIdle

NoiseNext ==
    \/ SetPairsRound
    \/ UttBeginGroup
    \/ UttSamplePassAny
    \/ UttEndGroup
    \/ UttReturn
    \/ NoiseBegin
    \/ NoiseStepAny
    \/ NoiseReturn
    \/ SetPairsReturn

NoiseSpec == NoiseInit /\ [][NoiseNext]_vars

\* the loop of set_noise_pairs is over and the function is about to return
NoiseLoopOver == pc = "noise_loop" /\ cursor > Len(pairs_copy)

\* C13: for a training subset, a clip assigned when no clip is long enough is
\* the longest clip that was left in the pool, and it is taken out of the pool.
C13_FallbackLongest ==
    (pc = "noise_loop" /\ is_train /\ new_noise_pairs # <<>>
        /\ ~new_noise_pairs[Len(new_noise_pairs)].as_list) =>
        LET last == new_noise_pairs[Len(new_noise_pairs)].label
        IN  /\ last \notin md
            /\ \A k \in md : wham_md_file[k].length <= wham_md_file[last].length

\* C14: for a training subset set_noise_pairs raises no error and returns one
\* noise entry for every group it was given, none of which is dropped.
C14_TrainAlwaysAssigned ==
    is_train =>
        /\ pc # "IndexError"
        /\ NoiseLoopOver =>
                /\ pair_list = pairs_copy
                /\ Len(new_noise_pairs) = Len(pairs_copy)

\* the clip of a noise entry is at least as long as every utterance of the group
Covers(entry, group) ==
    \A k \in 1..Len(group) :
        wham_md_file[entry.label].length >= librispeech_md_file[group[k]].length

\* C15: outside training, a group for which no clip is long enough leaves the
\* group list and gets no noise entry; when set_noise_pairs returns, and after
\* every round of set_pairs, both lists have the same length and the entry at
\* position i is the one chosen for the group at position i.
C15_DropKeepsAlignment ==
    ~is_train =>
        /\ (pc = "noise_loop") =>
                \A j \in 1..(cursor - 1) :
                    (\E i \in 1..Len(chosen) : chosen[i].pair = pairs_copy[j])
                        <=> pairs_copy[j] \in Range(pair_list)
        /\ NoiseLoopOver =>
                /\ Len(pair_list) = Len(new_noise_pairs)
                /\ Len(pair_list) = Len(chosen)
                /\ \A i \in 1..Len(chosen) :
                        /\ chosen[i].pair = pair_list[i]
                        /\ chosen[i].label = new_noise_pairs[i].label
        /\ (pc \in {"set_pairs", "pairs_done"}) =>
                /\ Len(utt_pairs) = Len(noise_pairs)
                /\ \A i \in 1..Len(noise_pairs) : Covers(noise_pairs[i], utt_pairs[i])

\* C15 witness: in a later round of a dev subset the first group of the call
\* was dropped and a later group of the call got a clip.
C15_Witness ==
    /\ ~is_train
    /\ NoiseLoopOver
    /\ utt_pairs # <<>>
    /\ pair_list # <<>>
    /\ pairs_copy[1] \notin Range(pair_list)

\* the clips that were in the pool when the running call began: those left
\* and those assigned since
CallPool == md \cup {new_noise_pairs[i].label : i \in 1..Len(new_noise_pairs)}

\* C16: the pool of a call holds non-augmented clips only unless the groups of
\* that call outnumber the non-augmented clips, also in later rounds.
C16_PoolPerCall ==
    (pc = "noise_loop" /\ Len(pairs_copy) <= Cardinality(NonAugmented))
        => CallPool \subseteq NonAugmented

\* C16 as amended: the pool of a call holds non-augmented clips only when the
\* groups accumulated so far plus the groups of the call do not outnumber the
\* non-augmented clips, and is the whole table otherwise.
C16_PoolByTotal ==
    (pc = "noise_loop") =>
        IF Len(utt_pairs) + Len(pairs_copy) > Cardinality(NonAugmented)
        THEN CallPool = DOMAIN wham_md_file
        ELSE CallPool = NonAugmented

\* C16 witness: a call of a later round whose groups do not outnumber the
\* non-augmented clips assigned an augmented clip; and the table holds an
\* augmented clip.
C16_Witness ==
    /\ pc = "noise_loop"
    /\ utt_pairs # <<>>
    /\ NonAugmented # {}
    /\ Len(pairs_copy) <= Cardinality(NonAugmented)
    /\ \E i \in 1..Len(new_noise_pairs) : wham_md_file[new_noise_pairs[i].label].augmented

-----------------------------------------------------------------------------
(* Properties of set_utt_pairs, checked under Spec *)

Speakers == {librispeech_md_file[i].speaker_ID : i \in DOMAIN librispeech_md_file}

\* C17: a group attempt that cannot find n_src distinct speakers is given up
\* after 200 failed passes, so set_utt_pairs returns no group when the table
\* has fewer than n_src distinct speakers.
C17_TooFewSpeakersNoGroup ==
    (pc = "noise_begin" /\ Cardinality(Speakers) < n_src) => pair_list = <<>>

RECURSIVE Flatten(_)
Flatten(seqs) == IF seqs = <<>> THEN <<>> ELSE Head(seqs) \o Flatten(Tail(seqs))

\* C18: during a call of set_utt_pairs every row is in index, in the partial
\* group or in one returned group, never in two places nor twice; every
\* returned group has n_src members; fewer than n_src rows are left over at the
\* return; so the groups of the single training pass share no utterance.
C18_IndexUsedOnce ==
    /\ (pc \in {"utt_outer", "utt_inner"}) =>
            \* couple is live inside the inner loop only
            LET used == Flatten(pair_list) \o (IF pc = "utt_inner" THEN couple ELSE <<>>)
            IN  /\ Cardinality(Range(used)) = Len(used)
                /\ Range(used) \cap index = {}
                /\ Range(used) \cup index = DOMAIN librispeech_md_file
    /\ (pc \in {"utt_outer", "utt_inner", "noise_begin"}) =>
            \A i \in 1..Len(pair_list) : Len(pair_list[i]) = n_src
    /\ (pc = "noise_begin") =>
            /\ Cardinality(Range(Flatten(pair_list))) = Len(Flatten(pair_list))
            /\ Len(librispeech_md_file) - Len(Flatten(pair_list)) < n_src
    /\ (pc = "pairs_done" /\ single_pass) =>
            Cardinality(Range(Flatten(utt_pairs))) = Len(Flatten(utt_pairs))

\* C18 witness: set_utt_pairs returned one group of two rows of a table of
\* three; one row is left over.
C18_Witness ==
    /\ pc = "noise_begin"
    /\ n_src = 2
    /\ Len(librispeech_md_file) = 3
    /\ Len(pair_list) = 1

-----------------------------------------------------------------------------
(* Properties of create_librimix_metadata, checked under MainSpec *)

\* C19: an entry of the listing that is not a csv file is skipped and is not
\* fatal: once the listing was checked, the files to process are csv files
\* only, and no file is processed that is not one.
C19_NonCsvSkipped ==
    /\ (mpc \in {"seq_loop", "start_workers", "returned", "IndexError"}) =>
            \A i \in 1..Len(librispeech_md_files) :
                EndsWith(librispeech_md_files[i], DotCsv)
    /\ \A w \in 1..Len(jobs) : EndsWith(jobs[w].file, DotCsv)

\* C22: check_already_generated ends without an error, and after it no
\* subset is left to process whose mixture file, the dataset name joined to
\* the subset's file name, is already in the output directory.
C22_ExistingOutputsSkipped ==
    /\ mpc # "ValueError"
    /\ mpc = "validate" =>
            \A i \in 1..Len(librispeech_md_files) :
                SaveNameOf(dataset, librispeech_md_files[i]) \notin md_dir


-----------------------------------------------------------------------------
(* The signal chain of one mixture: set_loudness, mix, check_for_cliping and *)
(* compute_gain.  Numbers are decimal floating-point values [m, e] standing  *)
(* for m * 10^e, with a mantissa of four digits; every operation truncates   *)
(* to that precision, as floating-point arithmetic rounds.  All samples are  *)
(* non-negative.                                                             *)

\* smallest mantissa of a normalised value; mantissas are in Mant..(10 * Mant - 1)
Mant == 1000

Zero == [m |-> 0, e |-> 0]

RECURSIVE Norm(_, _)
Norm(m, e) ==
    IF m = 0 THEN Zero
    ELSE IF m >= 10 * Mant THEN Norm(m \div 10, e + 1)
    ELSE IF m < Mant THEN Norm(m * 10, e - 1)
    ELSE [m |-> m, e |-> e]

ToFloat(n) == Norm(n, 0)

One == ToFloat(1)

Mul(x, y) == Norm(x.m * y.m, x.e + y.e)

\* x / y, y not zero
Div(x, y) == Norm((x.m * 10 * Mant) \div y.m, x.e - y.e - 4)

Less(x, y) ==
    IF y.m = 0 THEN FALSE
    ELSE IF x.m = 0 THEN TRUE
    ELSE x.e < y.e \/ (x.e = y.e /\ x.m < y.m)

FMax(x, y) == IF Less(x, y) THEN y ELSE x

\* the smaller operand is shifted to the exponent of the larger one
RECURSIVE Shifted(_, _)
Shifted(x, e) ==
    IF x.m = 0 \/ x.e >= e THEN x ELSE Shifted([m |-> x.m \div 10, e |-> x.e + 1], e)

Add(x, y) ==
    IF x.m = 0 THEN y
    ELSE IF y.m = 0 THEN x
    ELSE LET e == IF x.e > y.e THEN x.e ELSE y.e
         IN  Norm(Shifted(x, e).m + Shifted(y, e).m, e)

\* the largest r in lo..hi with r * r <= n
RECURSIVE IntSqrt(_, _, _)
IntSqrt(n, lo, hi) ==
    IF lo >= hi THEN lo
    ELSE LET mid == (lo + hi + 1) \div 2
         IN  IF mid * mid <= n THEN IntSqrt(n, mid, hi) ELSE IntSqrt(n, lo, mid - 1)

Sqrt(x) ==
    IF x.m = 0 THEN Zero
    ELSE IF x.e % 2 = 0
         THEN Norm(IntSqrt(x.m * 10 * Mant, 0, 40 * Mant), (x.e - 4) \div 2)
         ELSE Norm(IntSqrt(x.m * 100 * Mant, 0, 40 * Mant), (x.e - 5) \div 2)


-----------------------------------------------------------------------------
(* Signals.  A signal is a sequence of measurement blocks of the loudness    *)
(* meter; a block [p, a] holds one sample of value p followed by samples of  *)
(* value a.  Loudness values are kept as powers: a loudness of L LUFS is the *)
(* power 10^((L + 0.691) / 10), so that a difference of loudness is a ratio  *)
(* of powers and 10^(delta / 20) is the square root of that ratio.           *)

RATE == 16000
MAX_AMP == [m |-> 9000, e |-> -4]

\* the samples of one measurement block of pyln.Meter(RATE): 0.4 seconds
BlockSamples == (RATE * 4) \div 10

\* the powers of ten of 0 to 9 tenths
TenthPowers == <<1000, 1259, 1585, 1995, 2512, 3162, 3981, 5012, 6310, 7943>>

\* 10^(d / 10) for an integer d
DbToPower(d) == [m |-> TenthPowers[(d % 10) + 1], e |-> (d \div 10) - 3]

\* the power of a loudness of d LUFS: 10^((d + 0.691) / 10)
LufsToPower(d) == Mul(DbToPower(d), [m |-> 1172, e |-> -3])

\* the absolute gate of the meter, in LUFS
AbsoluteGate == -70

Scale(data, g) ==
    [j \in 1..Len(data) |-> [p |-> Mul(g, data[j].p), a |-> Mul(g, data[j].a)]]

\* np.max(np.abs(data))
RECURSIVE PeakFrom(_, _)
PeakFrom(data, j) ==
    IF j > Len(data) THEN Zero
    ELSE FMax(FMax(data[j].p, data[j].a), PeakFrom(data, j + 1))

Peak(data) == PeakFrom(data, 1)

\* mean square of the samples of a block
BlockPower(b) ==
    Div(Add(Mul(b.p, b.p), Mul(ToFloat(BlockSamples - 1), Mul(b.a, b.a))),
        ToFloat(BlockSamples))

\* sum of z over the blocks of J, from block j on
RECURSIVE SumOver(_, _, _)
SumOver(z, J, j) ==
    IF j > Len(z) THEN Zero
    ELSE Add(IF j \in J THEN z[j] ELSE Zero, SumOver(z, J, j + 1))

MeanOver(z, J) ==
    IF J = {} THEN Zero ELSE Div(SumOver(z, J, 1), ToFloat(Cardinality(J)))

\* meter.integrated_loudness(data), as a power: the mean power of the blocks
\* that pass the absolute gate and the relative gate, 10 LU under the mean of
\* the blocks that pass the absolute gate; no block left is no power.  The
\* blocks are taken side by side and the frequency weighting, a linear
\* filter, is left out.
integrated_loudness(data) ==
    LET z == [j \in 1..Len(data) |-> BlockPower(data[j])]
        Gamma_a == LufsToPower(AbsoluteGate)
        J_a == {j \in 1..Len(data) : ~Less(z[j], Gamma_a)}
        Gamma_r == Div(MeanOver(z, J_a), ToFloat(10))
        J_g == {j \in 1..Len(data) : Less(Gamma_r, z[j]) /\ Less(Gamma_a, z[j])}
    IN  MeanOver(z, J_g)

\* pyln.normalize.loudness(data, input_loudness, target_loudness)
normalize_loudness(data, input_loudness, target_loudness) ==
    Scale(data, Sqrt(Div(LufsToPower(target_loudness), input_loudness)))

\* set_loudness(sources_list) with the draws of random.uniform in targets
set_loudness_no_fallback(list, targets) ==
    LET loudness_list == [i \in 1..Len(list) |-> integrated_loudness(list[i])]
    IN  [loudness |-> loudness_list,
         target_loudness_list |-> [i \in 1..Len(list) |-> LufsToPower(targets[i])],
         sources_list_norm |->
             [i \in 1..Len(list) |->
                 normalize_loudness(list[i], loudness_list[i], targets[i])]]

set_loudness(list, targets) ==
    LET loudness_list == [i \in 1..Len(list) |-> integrated_loudness(list[i])]
        src(i) == normalize_loudness(list[i], loudness_list[i], targets[i])
        peak_norm(i) == Scale(list[i], Div(MAX_AMP, Peak(list[i])))
    IN  [loudness |-> loudness_list,
         target_loudness_list |->
             [i \in 1..Len(list) |->
                 IF ~Less(Peak(src(i)), One)
                 THEN integrated_loudness(peak_norm(i))
                 ELSE LufsToPower(targets[i])],
         sources_list_norm |->
             [i \in 1..Len(list) |->
                 IF ~Less(Peak(src(i)), One)
                 THEN peak_norm(i)
                 ELSE src(i)]]

\* mix(sources_list_norm): the sample-wise sum
RECURSIVE SumBlocks(_, _, _)
SumBlocks(list, j, i) ==
    IF i > Len(list) THEN [p |-> Zero, a |-> Zero]
    ELSE LET rest == SumBlocks(list, j, i + 1)
         IN  [p |-> Add(list[i][j].p, rest.p), a |-> Add(list[i][j].a, rest.a)]

mix(list) == [j \in 1..Len(list[1]) |-> SumBlocks(list, j, 1)]

\* check_for_cliping(mixture_max, sources_list_norm)
clip_weight_always(mixture) == Div(MAX_AMP, Peak(mixture))

clip_weight(mixture) ==
    IF Less(MAX_AMP, Peak(mixture)) THEN Div(MAX_AMP, Peak(mixture)) ELSE One

check_for_cliping(mixture, list) ==
    [clip |-> Less(MAX_AMP, Peak(mixture)),
     weight |-> clip_weight(mixture),
     renormalize_loudness |->
         [i \in 1..Len(list) |->
             integrated_loudness(Scale(list[i], clip_weight(mixture)))]]

\* compute_gain(loudness, renormalize_loudness)
compute_gain(l, renorm) ==
    [i \in 1..Len(l) |-> Sqrt(Div(renorm[i], l[i]))]


-----------------------------------------------------------------------------
(* One pass of the loop body of create_librimix_df after read_sources and    *)
(* add_noise: the sources of a group and its noise, padded or cut to one     *)
(* length, go through set_loudness, mix, check_for_cliping and compute_gain. *)

SetLoudness ==
    /\ spc = "set_loudness"
    /\ LET d == LoudnessDraws(1, rng, <<>>)
           r == set_loudness(sources_list, d.value)
       IN  /\ loudness' = r.loudness
           /\ drawn' = d.value
           /\ target_loudness_list' = r.target_loudness_list
           /\ sources_list_norm' = r.sources_list_norm
           /\ rng' = d.rng
    /\ spc' = "mix"
    /\ UNCHANGED <<sources_list, mixture_max, weight, renormalize_loudness,
                   did_clip, gain_list>>

MixSources ==
    /\ spc = "mix"
    /\ mixture_max' = mix(sources_list_norm)
    /\ spc' = "check_for_cliping"
    /\ UNCHANGED <<sources_list, loudness, drawn, target_loudness_list, sources_list_norm, weight,
                   renormalize_loudness, did_clip, gain_list, rng>>

CheckForCliping ==
    /\ spc = "check_for_cliping"
    /\ LET r == check_for_cliping(mixture_max, sources_list_norm)
       IN  /\ renormalize_loudness' = r.renormalize_loudness
           /\ did_clip' = r.clip
           /\ weight' = r.weight
    /\ spc' = "compute_gain"
    /\ UNCHANGED <<sources_list, loudness, drawn, target_loudness_list, sources_list_norm, mixture_max,
                   gain_list, rng>>

ComputeGain ==
    /\ spc = "compute_gain"
    /\ gain_list' = compute_gain(loudness, renormalize_loudness)
    /\ spc' = "row"
    /\ UNCHANGED <<sources_list, loudness, drawn, target_loudness_list, sources_list_norm, mixture_max,
                   weight, renormalize_loudness, did_clip, rng>>

\* blocks of a signal
MaxBlocks == 3

\* the blocks of the signals: a floor of a tenth or a fiftieth of full scale
\* under one sample at 99 / 100 of full scale, a level block at a fiftieth or
\* at 5 / 10000 of full scale, and a silent block
Silent == [p |-> Zero, a |-> Zero]

Shapes ==
    {[p |-> Norm(99, -2), a |-> Norm(1, -1)],
     [p |-> Norm(99, -2), a |-> Norm(2, -2)],
     [p |-> Norm(2, -2), a |-> Norm(2, -2)],
     [p |-> Norm(5, -4), a |-> Norm(5, -4)],
     Silent}

\* utterances: any shape in any block, with something to measure
Utterances ==
    {s \in [1..MaxBlocks -> Shapes] : integrated_loudness(s) # Zero}

\* noises: one shape all along
Noises ==
    {[j \in 1..MaxBlocks |-> b] : b \in Shapes \ {Silent}}

SignalInit ==
    /\ n_src = 1
    /\ re_use_utterances_for_train = FALSE
    /\ librispeech_md_file = <<>>
    /\ wham_md_file = <<>>
    /\ pc = "idle"
    /\ PairsIdle
    /\ rng \in 0..(RngModulus - 1)
    /\ DfIdle /\ DdIdle /\ RunIdle /\ MainIdle
    /\ sources_list \in {<<u, n>> : u \in Utterances, n \in Noises}
    /\ loudness = <<>>
    /\ drawn = <<>>
    /\ target_loudness_list = <<>>
    /\ sources_list_norm = <<>>
    /\ mixture_max = <<>>
    /\ weight = <<>>
    /\ renormalize_loudness = <<>>
    /\ did_clip = FALSE
    /\ gain_list = <<>>
    /\ spc = "set_loudness"

sig_others == <<inputs, pc, utt_pairs, noise_pairs, index, couple,
                num_failed_trials, pair_list, pairs_copy, cursor, md,
                new_noise_pairs, chosen, df_vars, dd_vars, run_vars, main_vars>>

SignalNext ==
    \/ SetLoudness /\ UNCHANGED sig_others
    \/ MixSources /\ UNCHANGED sig_others
    \/ CheckForCliping /\ UNCHANGED sig_others
    \/ ComputeGain /\ UNCHANGED sig_others

SignalSpec == SignalInit /\ [][SignalNext]_vars


-----------------------------------------------------------------------------
(* Properties of the signal chain, under SignalSpec *)

\* x is at most y, up to one part in a hundred
AtMost(x, y) == ~Less(Mul(y, [m |-> 1010, e |-> -3]), x)

WithinTolerance(x, y) == AtMost(x, y) /\ AtMost(y, x)

\* the sources, each scaled by its factor
ScaledBy(list, g) == [i \in 1..Len(list) |-> Scale(list[i], g[i])]

Checked == spc \in {"compute_gain", "row"}

\* C20: check_for_cliping reports clipping exactly when a sample of the
\* mixture is strictly above MAX_AMP.  Then the weight is MAX_AMP / peak, the
\* loudness of every source is measured on the source times that weight, and
\* the weighted sources sum to a mixture of peak MAX_AMP.  Otherwise the weight
\* is 1 and every re-measured loudness is the loudness of the normalized
\* source.  In both cases the stored sources are as mix summed them: their sum
\* is still the mixture, above MAX_AMP when clipping was reported.
C20_ClipWeight ==
    Checked =>
        LET n == Len(sources_list_norm)
            weights == [i \in 1..n |-> weight]
        IN  /\ did_clip <=>
                  \E j \in 1..Len(mixture_max) :
                      \/ Less(MAX_AMP, mixture_max[j].p)
                      \/ Less(MAX_AMP, mixture_max[j].a)
            /\ did_clip =>
                  /\ WithinTolerance(Mul(weight, Peak(mixture_max)), MAX_AMP)
                  /\ WithinTolerance(
                         Peak(mix(ScaledBy(sources_list_norm, weights))), MAX_AMP)
            /\ ~did_clip => weight = One
            /\ \A i \in 1..n :
                  /\ renormalize_loudness[i] =
                         integrated_loudness(Scale(sources_list_norm[i], weight))
                  /\ ~did_clip =>
                         renormalize_loudness[i] =
                             integrated_loudness(sources_list_norm[i])
            /\ mixture_max = mix(sources_list_norm)
            /\ did_clip => Less(MAX_AMP, Peak(mix(sources_list_norm)))

\* clipping was reported and the loudness re-measured under a weight below 1
C20_Witness ==
    /\ Checked
    /\ did_clip
    /\ Less(weight, One)
    /\ \E i \in 1..Len(sources_list_norm) :
          Less(renormalize_loudness[i], integrated_loudness(sources_list_norm[i]))

\* C11: once the gains of a mixture are computed, the original sources, each
\* times its gain, sum to a signal whose peak is at most MAX_AMP, up to one
\* part in a hundred.
C11_AmplitudeBound ==
    spc = "row" =>
        AtMost(Peak(mix(ScaledBy(sources_list, gain_list))), MAX_AMP)


Normalized == spc \in {"mix", "check_for_cliping", "compute_gain", "row"}

\* the source rescaled to the target that was drawn for it
Rescaled(i) == normalize_loudness(sources_list[i], loudness[i], drawn[i])

\* C21: every source that set_loudness returns has a peak strictly below 1.
\* A source whose rescale to the drawn target has a peak of 1 or more is
\* returned as the original times MAX_AMP / peak, so with a peak of MAX_AMP,
\* and its reported target is the loudness measured on that buffer; any other
\* source is returned rescaled, with the drawn target reported.
C21_NoSourceClips ==
    Normalized =>
        \A i \in 1..Len(sources_list) :
            /\ Less(Peak(sources_list_norm[i]), One)
            /\ IF ~Less(Peak(Rescaled(i)), One)
               THEN /\ WithinTolerance(Peak(sources_list_norm[i]), MAX_AMP)
                    /\ sources_list_norm[i] =
                           Scale(sources_list[i],
                                 Div(MAX_AMP, Peak(sources_list[i])))
                    /\ target_loudness_list[i] =
                           integrated_loudness(sources_list_norm[i])
               ELSE /\ sources_list_norm[i] = Rescaled(i)
                    /\ target_loudness_list[i] = LufsToPower(drawn[i])

\* a source was replaced and its reported target is not the drawn one
C21_Witness ==
    /\ Normalized
    /\ \E i \in 1..Len(sources_list) :
          /\ ~Less(Peak(Rescaled(i)), One)
          /\ WithinTolerance(Peak(sources_list_norm[i]), MAX_AMP)
          /\ target_loudness_list[i] # LufsToPower(drawn[i])

====
